---- MODULE Spec2Model ----
(***************************************************************************)
(* State-machine model of the egg-digital AR front end:                    *)
(*   src/src/App.tsx                         App (host SDK init, gating)   *)
(*   src/src/components/CameraPermission.tsx requestPermission             *)
(*   src/src/components/MindAR.tsx           MindAR component              *)
(*                                                                         *)
(* Every asynchronous handler is cut at its await points: one action per   *)
(* continuation, the outcome of the awaited external call being the        *)
(* action's input.  React state setters are no-ops once the component is   *)
(* unmounted; refs and closure variables are plain mutable fields.         *)
(*                                                                         *)
(* The specifications share the variables:                                 *)
(*   Spec      the MindAR component from its construction                  *)
(*   SpecApp   App: host SDK initialisation, permission gate, mount        *)
(*   SpecGate  the permission gate and MindAR together                     *)
(*   SpecLog   the diagnostic log buffer written by addLog                 *)
(*   SpecPose  the marker structure driven by the tracking callbacks       *)
(*   SpecFair  Spec, every awaited call of the start sequence settling     *)
(***************************************************************************)
EXTENDS Integers, Sequences, FiniteSets, TLC

\* ------------------------------------------------------------------ bounds
\* number of times the Start AR button is pressed in one run
MaxStarts == 2
\* the same, in the specification of the whole application
MaxAppStarts == 1
\* number of entries of resolutionOptions the user picks from (a prefix)
MaxRes == 2
\* number of addLog calls in one run of SpecLog
MaxAdds == 104
\* number of tracking-library events delivered in one run of SpecPose
MaxEvents == 3

\* ------------------------------------------------------- program constants
\* addLog keeps the latest 100 messages
LogCap == 100
\* initMarker: targetIndex 0
MarkerTargetIndex == 0
\* initController: maxTrack 1
MaxTrack == 1

\* a ref or nullable value: NULL, or Ref(x) holding x
NULL == << >>
Ref(x) == << x >>
Deref(r) == r[1]

Min(a, b) == IF a < b THEN a ELSE b

resolutionOptions ==
  << [label |-> "Default (Fit Screen)", width |-> 0,    height |-> 0],
     [label |-> "640x480",              width |-> 640,  height |-> 480],
     [label |-> "1280x720",             width |-> 1280, height |-> 720],
     [label |-> "1920x1080",            width |-> 1920, height |-> 1080] >>

\* ----------------------------------------------------- environment inputs
\* VITE_LIFF_ID as the build sees it ("" = not defined)
LiffIds == {"", "liff-id"}

Mic   == [kind |-> "audioinput", deviceId |-> "mic",       label |-> "Microphone"]
Front == [kind |-> "videoinput", deviceId |-> "cam-front", label |-> "Front Camera"]
Back  == [kind |-> "videoinput", deviceId |-> "cam-back",  label |-> "Back Camera"]

\* results of navigator.mediaDevices.enumerateDevices()
DeviceLists == { <<>>, <<Mic>>, <<Mic, Front>>, <<Front, Back>> }

\* rejections of getUserMedia
GumErrors == {"NotAllowedError", "OverconstrainedError"}

\* ids of the MediaStreams getUserMedia hands to startVideo
StreamIds == 1 .. (2 * MaxStarts)

\* ids of the animation-loop effect instances (one closure per instance)
Epochs == 1 .. MaxStarts

VARIABLES
  \* App
  liffId, liffPc, liffInitialized, liffInitCalls, liffCaught,
  cpPending, permissionGranted, appStartAR,
  \* MindAR: React state
  mounted, camPc, camGranted, cameras, selectedCameraId, selectedResolution,
  startAR, arReady,
  \* MindAR: position of handleStartAR / startVideo, closure of startVideo
  pc, constraints, starts,
  \* MindAR: the <video> element and the streams acquired for it
  video, live,
  \* MindAR: refs
  rendererRef, sceneRef, cameraRef, markerRef, controllerRef,
  animationFrameRef,
  \* MindAR: animation loop effect
  effARReady, effCleanup, loopEpoch, isLooping, pendingFrames,
  \* observations of the external calls made (history)
  gumCalls, attempts, svResult, stepsStarted, stepsOK, lastFailure,
  frameCalls, lastEvent, events, lastUpdate, markerLog,
  \* addLog
  logs, added

appVars  == << liffId, liffPc, liffInitialized, liffInitCalls, liffCaught,
               cpPending, permissionGranted, appStartAR >>
camVars  == << camPc, camGranted, cameras, selectedCameraId, selectedResolution >>
svVars   == << constraints, gumCalls, attempts, svResult >>
refVars  == << rendererRef, sceneRef, cameraRef, markerRef, controllerRef >>
loopVars == << animationFrameRef, effARReady, effCleanup, loopEpoch, isLooping,
               pendingFrames >>
\* what the step just taken did: the failure it handled (NoFailure: none)
\* and the calls a frame callback made (<<>>: no frame callback ran)
obsVars  == << lastFailure, frameCalls >>
logVars  == << logs, added >>
\* the event the tracking library delivered in the step just taken
\* (NoEvent: none), the number of events delivered so far, and, for the
\* marker structure initMarker built last: the kind of the last update
\* updateWorldMatrix applied to it ("none", "null", "matrix") and the
\* "Marker Target Found / Lost" entries addLog wrote for it, oldest first
poseVars == << lastEvent, events, lastUpdate, markerLog >>

stepVars == << stepsStarted, stepsOK >>
\* everything MindAR owns, the record of the last failure apart
mindVars == << mounted, camVars, startAR, arReady, pc, starts, svVars, video,
               live, refVars, loopVars, stepVars >>

vars == << appVars, mindVars, obsVars, logVars, poseVars >>

\* ------------------------------------------------------------- matrices
\* THREE.Matrix4.elements: 16 numbers, column-major
Identity == << 1,0,0,0,  0,1,0,0,  0,0,1,0,  0,0,0,1 >>

\* element (row r, column c), r, c in 0..3, of a column-major 16-tuple
El(m, r, c) == m[c * 4 + r + 1]

\* THREE.Matrix4.multiply: this = this x m  (a x b)
Multiply(a, b) ==
  [i \in 1..16 |->
     LET r == (i - 1) % 4
         c == (i - 1) \div 4
     IN  El(a,r,0) * El(b,0,c) + El(a,r,1) * El(b,1,c)
       + El(a,r,2) * El(b,2,c) + El(a,r,3) * El(b,3,c)]

\* world matrices the tracking library reports: a translation, a rotation
\* about z by 90 degrees, and a translation composed with a scale
W1 == << 1,0,0,0,  0,1,0,0,  0,0,1,0,  2,3,0,1 >>
W2 == << 0,1,0,0,  -1,0,0,0,  0,0,1,0,  0,0,0,1 >>
W3 == << 2,0,0,0,  0,2,0,0,  0,0,2,0,  1,0,1,1 >>
WorldMatrices == {W1, W2, W3}

\* ------------------------------------------------------------- Init
NoFailure == [site |-> "none", kind |-> "none", log |-> FALSE, alert |-> FALSE]
NoVideo   == [srcObject |-> 0, meta |-> FALSE, playing |-> FALSE]
NoConstraints == [deviceId |-> "", width |-> 0, height |-> 0]
NoEvent   == [type |-> "none", targetIndex |-> 0, worldMatrix |-> NULL]

Init ==
  /\ liffId \in LiffIds
  /\ liffPc = "start" /\ liffInitialized = FALSE /\ liffInitCalls = <<>>
  /\ liffCaught = "none"
  /\ cpPending = 0 /\ permissionGranted = FALSE /\ appStartAR = FALSE
  /\ mounted = "no" /\ camPc = "idle" /\ camGranted = FALSE
  /\ cameras = <<>> /\ selectedCameraId = ""
  /\ selectedResolution = resolutionOptions[1]
  /\ startAR = FALSE /\ arReady = FALSE
  /\ pc = "idle" /\ constraints = NoConstraints /\ starts = 0
  /\ video = NoVideo /\ live = {}
  /\ rendererRef = NULL /\ sceneRef = NULL /\ cameraRef = NULL
  /\ markerRef = NULL /\ controllerRef = NULL
  /\ animationFrameRef = 0
  /\ effARReady = FALSE /\ effCleanup = FALSE /\ loopEpoch = 0
  /\ isLooping = [e \in Epochs |-> FALSE] /\ pendingFrames = {}
  /\ gumCalls = <<>> /\ attempts = <<>> /\ svResult = "none"
  /\ stepsStarted = <<>> /\ stepsOK = <<>> /\ lastFailure = NoFailure
  /\ frameCalls = <<>> /\ lastEvent = NoEvent /\ events = 0
  /\ lastUpdate = "none" /\ markerLog = <<>>
  /\ logs = <<>> /\ added = 0

\* a failure as its handler leaves it: where it was caught, what it was,
\* whether a log entry (on-screen or console) and an alert() were produced
Failure(site, kind, log, alert) ==
  [site |-> site, kind |-> kind, log |-> log, alert |-> alert]

\* React: a state setter called after the component is gone changes nothing
SetState(old, new) == IF mounted = "yes" THEN new ELSE old

\* ------------------------------------------------------------------ App
LiffIdNeverMissing(id) == FALSE

\* if (!liffId) throw
LiffIdMissing(id) == id = ""

\* CameraPermission's effect depends on the inline onPermissionGranted prop,
\* so it runs again on every render of App that still shows the gate
RequestPermission(granted) == IF granted THEN cpPending ELSE cpPending + 1

\* first commit of App: the initLiff effect up to its await, and
\* CameraPermission's requestPermission up to its await
AppMountEffects ==
  /\ frameCalls' = <<>>
  /\ liffPc = "start"
  /\ IF LiffIdMissing(liffId)
       THEN /\ liffCaught' = "missingId"
            /\ liffPc' = "done"
            /\ UNCHANGED liffInitCalls
       ELSE /\ liffInitCalls' = Append(liffInitCalls, liffId)
            /\ liffPc' = "awaitInit"
            /\ UNCHANGED liffCaught
  /\ cpPending' = RequestPermission(permissionGranted)
  /\ lastFailure' = NoFailure
  /\ UNCHANGED << liffId, liffInitialized, permissionGranted, appStartAR,
                  mindVars, logVars, poseVars >>

\* liff.init settles
LiffInitSettles(ok) ==
  /\ frameCalls' = <<>>
  /\ liffPc = "awaitInit"
  /\ liffPc' = "done"
  /\ IF ok
       THEN /\ liffInitialized' = TRUE
            /\ UNCHANGED liffCaught
            \* App renders again
            /\ cpPending' = RequestPermission(permissionGranted)
       ELSE /\ liffCaught' = "rejected"
            /\ UNCHANGED << liffInitialized, cpPending >>
  /\ lastFailure' = NoFailure
  /\ UNCHANGED << liffId, liffInitCalls, permissionGranted, appStartAR,
                  mindVars, logVars, poseVars >>

\* CameraPermission: getUserMedia({video: true}) settles; the stream is
\* stopped at once, a rejection is written to the console only
CameraPermissionCatch(kind) == Failure("CameraPermission", kind, TRUE, FALSE)

PermissionSettles(outcome) ==
  /\ frameCalls' = <<>>
  /\ cpPending > 0
  /\ cpPending' = cpPending - 1
  /\ IF outcome = "ok"
       THEN /\ permissionGranted' = TRUE
            /\ lastFailure' = NoFailure
       ELSE /\ lastFailure' = CameraPermissionCatch(outcome)
            /\ UNCHANGED permissionGranted
  /\ UNCHANGED << liffId, liffPc, liffInitialized, liffInitCalls, liffCaught,
                  appStartAR, mindVars, logVars, poseVars >>
\* -------------------------------------------------- MindAR: setupCameras
\* /back|rear|environment/i.test(label)
IsRearLabel(label) == label \in {"Back Camera", "Rear Camera", "environment"}

VideoInputs(devices) == SelectSeq(devices, LAMBDA d : d.kind = "videoinput")

\* videoDevices.find(rear) ? its deviceId : videoDevices[0].deviceId
DefaultCameraId(videoDevices) ==
  LET rear == SelectSeq(videoDevices, LAMBDA d : IsRearLabel(d.label))
  IN  IF Len(rear) > 0 THEN rear[1].deviceId ELSE videoDevices[1].deviceId

SetupCamerasCatch(kind) == Failure("setupCameras", kind, TRUE, TRUE)

\* the Start button of App: MindAR is mounted and its mount effects run
\* (setupCameras up to its first await); App renders again
ClickStart ==
  /\ frameCalls' = <<>>
  /\ liffPc # "start"
  /\ ~appStartAR
  /\ appStartAR' = TRUE
  /\ mounted' = "yes"
  /\ camPc' = "awaitGUM"
  /\ cpPending' = RequestPermission(permissionGranted)
  /\ lastFailure' = NoFailure
  /\ UNCHANGED << liffId, liffPc, liffInitialized, liffInitCalls, liffCaught,
                  permissionGranted, camGranted, cameras, selectedCameraId,
                  selectedResolution, startAR, arReady, pc, starts, svVars,
                  video, live, refVars, loopVars, stepVars, logVars,
                  poseVars >>

\* setupCameras: getUserMedia({video: true}) settles
SetupCamerasGum(outcome) ==
  /\ frameCalls' = <<>>
  /\ camPc = "awaitGUM"
  /\ IF outcome = "ok"
       THEN \* tracks stopped at once; enumerateDevices() called
            /\ camGranted' = TRUE
            /\ camPc' = "awaitEnum"
            /\ lastFailure' = NoFailure
       ELSE /\ lastFailure' = SetupCamerasCatch(outcome)
            /\ camPc' = "done"
            /\ UNCHANGED camGranted
  /\ UNCHANGED << appVars, mounted, cameras, selectedCameraId,
                  selectedResolution, startAR, arReady, pc, starts, svVars,
                  video, live, refVars, loopVars, stepVars, logVars, poseVars >>

\* setupCameras: enumerateDevices() settles (resolves with devices, or rejects)
SetupCamerasEnum(resolved, devices) ==
  /\ frameCalls' = <<>>
  /\ camPc = "awaitEnum"
  /\ camPc' = "done"
  /\ IF ~resolved
       THEN /\ lastFailure' = SetupCamerasCatch("enumerateError")
            /\ UNCHANGED << cameras, selectedCameraId >>
       ELSE LET videoDevices == VideoInputs(devices) IN
            /\ cameras' = SetState(cameras, videoDevices)
            /\ IF Len(videoDevices) > 0
                 THEN /\ selectedCameraId' =
                           SetState(selectedCameraId, DefaultCameraId(videoDevices))
                      /\ lastFailure' = NoFailure
                 ELSE /\ lastFailure' = SetupCamerasCatch("noVideoDevices")
                      /\ UNCHANGED selectedCameraId
  /\ UNCHANGED << appVars, mounted, camGranted, selectedResolution, startAR,
                  arReady, pc, starts, svVars, video, live, refVars, loopVars,
                  stepVars, logVars, poseVars >>

\* ------------------------------------------------ MindAR: configuration UI
\* the configuration panel is rendered only while startAR is false
PanelShown == mounted = "yes" /\ ~startAR

ReadyShownWheneverStarted == mounted = "yes" /\ startAR

\* {startAR && !arReady && ...}: the "Initializing AR" indicator
InitializingShown == mounted = "yes" /\ startAR /\ ~arReady

\* {arReady && ...}: the "AR Ready" indicator
ReadyShown == mounted = "yes" /\ arReady

\* <select id="cameraSelect"> onChange
SelectCamera(id) ==
  /\ frameCalls' = <<>>
  /\ PanelShown
  /\ ~(Len(cameras) = 0 \/ startAR)
  /\ \E i \in 1..Len(cameras) : cameras[i].deviceId = id
  /\ selectedCameraId' = id
  /\ lastFailure' = NoFailure
  /\ UNCHANGED << appVars, mounted, camPc, camGranted, cameras,
                  selectedResolution, startAR, arReady, pc, starts, svVars,
                  video, live, refVars, loopVars, stepVars, logVars,
                  poseVars >>

\* <select id="resolutionSelect"> onChange
SelectResolution(i) ==
  /\ frameCalls' = <<>>
  /\ PanelShown
  /\ ~startAR
  /\ selectedResolution' = resolutionOptions[i]
  /\ lastFailure' = NoFailure
  /\ UNCHANGED << appVars, mounted, camPc, camGranted, cameras,
                  selectedCameraId, startAR, arReady, pc, starts, svVars,
                  video, live, refVars, loopVars, stepVars, logVars,
                  poseVars >>

\* ---------------------------------------------------- MindAR: startVideo
UseSpecificResolutionAlways(res) == TRUE

UseSpecificResolution(res) == res.width > 0 /\ res.height > 0

\* constraints.video: deviceId {exact}, and width / height {ideal} when a
\* specific resolution is selected (0 = the property is absent)
BuildConstraints(cameraId, res) ==
  [deviceId |-> cameraId,
   width    |-> IF UseSpecificResolution(res) THEN res.width ELSE 0,
   height   |-> IF UseSpecificResolution(res) THEN res.height ELSE 0]

RetryConstraintsKept(c) == c

\* delete constraints.video.width; delete constraints.video.height
RetryConstraints(c) == [c EXCEPT !.width = 0, !.height = 0]

\* the stream a resolving getUserMedia returns: one that is not in use
FreshStream ==
  CHOOSE s \in StreamIds :
    /\ s \notin live /\ s # video.srcObject
    /\ \A t \in StreamIds : (t \notin live /\ t # video.srcObject) => s <= t

\* video.srcObject = stream
Attach(s) == [srcObject |-> s, meta |-> FALSE, playing |-> FALSE]

StartDisabledWhileStartingOnly == startAR

\* Start AR button: disabled={!selectedCameraId || startAR}
StartDisabled == selectedCameraId = "" \/ startAR

StartPressableWhileStarting == mounted = "yes" /\ selectedCameraId # ""

\* the Start AR button can be pressed: it is rendered (panel shown) and enabled
StartPressable == PanelShown /\ ~StartDisabled

\* React runs the pending effects of the last commit before it handles a
\* click: the animation effect has seen the committed arReady
EffectsFlushed == arReady = effARReady

\* handleStartAR, step 1 aborted: setStartAR(false); return
AbortStep1 ==
  /\ startAR' = SetState(startAR, FALSE)
  /\ pc' = "idle"

StartVideoCatch(kind, retrying) ==
  Failure("startVideo", kind, TRUE, ~retrying)

StartVideoRetryCatch(kind) == Failure("startVideo.retry", kind, TRUE, TRUE)

\* catch (error) of the first attempt: retry with the resolution removed
\* when a specific resolution was requested, else alert and return false
FirstCatch(kind) ==
  /\ attempts' = Append(attempts, kind)
  /\ IF UseSpecificResolution(selectedResolution)
       THEN /\ constraints' = RetryConstraints(constraints)
            /\ gumCalls' = Append(gumCalls, RetryConstraints(constraints))
            /\ lastFailure' = StartVideoCatch(kind, TRUE)
            /\ pc' = "sv_gum2"
            /\ UNCHANGED << svResult, startAR >>
       ELSE /\ lastFailure' = StartVideoCatch(kind, FALSE)
            /\ svResult' = "false"
            /\ AbortStep1
            /\ UNCHANGED << constraints, gumCalls >>

\* catch (retryError): alert and return false
RetryCatch(kind) ==
  /\ attempts' = Append(attempts, kind)
  /\ lastFailure' = StartVideoRetryCatch(kind)
  /\ svResult' = "false"
  /\ AbortStep1
  /\ UNCHANGED << constraints, gumCalls >>

\* Start AR pressed: handleStartAR and startVideo up to the first await
\* (limit: the number of presses the run is bounded to)
HandleStartAR(limit) ==
  /\ frameCalls' = <<>>
  /\ StartPressable
  /\ EffectsFlushed
  /\ starts < limit
  /\ starts' = starts + 1
  /\ arReady' = SetState(arReady, FALSE)
  /\ stepsStarted' = <<1>>
  /\ stepsOK' = <<>>
  /\ attempts' = <<>>
  /\ IF selectedCameraId = ""
       THEN \* "No camera selected": startVideo returns false
            /\ svResult' = "false"
            /\ startAR' = SetState(startAR, FALSE)
            /\ pc' = "idle"
            /\ gumCalls' = <<>>
            /\ UNCHANGED << constraints, video, live >>
       ELSE /\ svResult' = "none"
            /\ startAR' = SetState(startAR, TRUE)
            /\ constraints' = BuildConstraints(selectedCameraId, selectedResolution)
            \* stop any stream still attached to the video element
            /\ live' = live \ {video.srcObject}
            /\ video' = NoVideo
            /\ gumCalls' = << BuildConstraints(selectedCameraId, selectedResolution) >>
            /\ pc' = "sv_gum1"
  /\ lastFailure' = NoFailure
  /\ UNCHANGED << appVars, mounted, camVars, refVars, loopVars, logVars,
                  poseVars >>

\* first getUserMedia(constraints) settles
StartVideoGum1(outcome) ==
  /\ frameCalls' = <<>>
  /\ pc = "sv_gum1"
  /\ IF outcome = "ok"
       THEN /\ live' = live \cup {FreshStream}
            /\ video' = Attach(FreshStream)
            /\ pc' = "sv_meta1"
            /\ lastFailure' = NoFailure
            /\ UNCHANGED << svVars, startAR >>
       ELSE /\ FirstCatch(outcome)
            /\ UNCHANGED << video, live >>
  /\ UNCHANGED << appVars, mounted, camVars, arReady, starts, refVars,
                  loopVars, stepVars, logVars, poseVars >>

\* the video element fires loadedmetadata or error (first attempt)
StartVideoMeta1(event) ==
  /\ frameCalls' = <<>>
  /\ pc = "sv_meta1"
  /\ IF event = "loadedmetadata"
       THEN /\ video' = [video EXCEPT !.meta = TRUE]
            /\ pc' = "sv_play1"
            /\ lastFailure' = NoFailure
            /\ UNCHANGED << svVars, startAR >>
       ELSE /\ FirstCatch("videoError")
            /\ UNCHANGED video
  /\ UNCHANGED << appVars, mounted, camVars, arReady, starts, live, refVars,
                  loopVars, stepVars, logVars, poseVars >>

\* retry getUserMedia(constraints) settles
StartVideoGum2(outcome) ==
  /\ frameCalls' = <<>>
  /\ pc = "sv_gum2"
  /\ IF outcome = "ok"
       THEN /\ live' = live \cup {FreshStream}
            /\ video' = Attach(FreshStream)
            /\ pc' = "sv_meta2"
            /\ lastFailure' = NoFailure
            /\ UNCHANGED << svVars, startAR >>
       ELSE /\ RetryCatch(outcome)
            /\ UNCHANGED << video, live >>
  /\ UNCHANGED << appVars, mounted, camVars, arReady, starts, refVars,
                  loopVars, stepVars, logVars, poseVars >>

\* the video element fires loadedmetadata or error (retry): the retry
\* installs an onloadedmetadata handler only, so an error settles nothing
StartVideoMeta2(event) ==
  /\ frameCalls' = <<>>
  /\ pc = "sv_meta2"
  /\ IF event = "loadedmetadata"
       THEN /\ video' = [video EXCEPT !.meta = TRUE]
            /\ pc' = "sv_play2"
       ELSE /\ pc' = "sv_meta2_errored"
            /\ UNCHANGED video
  /\ lastFailure' = NoFailure
  /\ UNCHANGED << appVars, mounted, camVars, startAR, arReady, starts,
                  svVars, live, refVars, loopVars, stepVars, logVars,
                  poseVars >>

\* -------------------------------------------- MindAR: handleStartAR steps
StepsUpTo(n) == [i \in 1..n |-> i]

\* initMarker: the ARMarker structure with its anchor (THREE.Object3D:
\* matrix = identity), invisible, postMatrix = identity
NewMarker ==
  [postMatrix  |-> Identity,
   targetIndex |-> MarkerTargetIndex,
   anchor      |-> [visible |-> FALSE, matrix |-> Identity]]

\* new window.MINDAR.IMAGE.Controller({inputWidth, inputHeight, maxTrack: 1, onUpdate})
NewController == [maxTrack |-> MaxTrack]

\* initController: video && readyState >= HAVE_METADATA && videoWidth > 0
VideoReady(v) == v.srcObject # 0 /\ v.meta

StartCanvasCatch    == Failure("startCanvas", "libraryInit", TRUE, TRUE)
InitControllerCatch == Failure("initController", "libraryInit", TRUE, TRUE)
InitControllerNotReady == Failure("initController", "videoNotReady", TRUE, FALSE)
RegisterMarkerCatch == Failure("registerMarker", "libraryInit", TRUE, TRUE)
RegisterMarkerInvalid == Failure("registerMarker", "invalidTargetData", TRUE, TRUE)
SetupCameraCatchSilent == Failure("setupCamera", "libraryInit", TRUE, FALSE)
SetupCameraCatch    == Failure("setupCamera", "libraryInit", TRUE, TRUE)
ComposeSceneNoMarker == Failure("composeScene", "markerMissing", TRUE, FALSE)

FailedAtSteps2to4NoCanvasCheck(rendererOK, ready, controllerOK) ==
  IF ~ready \/ ~controllerOK THEN 4 ELSE 0

\* the step of steps 2..4 at which handleStartAR returns early (0: none)
FailedAtSteps2to4(rendererOK, ready, controllerOK) ==
  IF ~rendererOK THEN 2
  ELSE IF ~ready \/ ~controllerOK THEN 4
  ELSE 0

\* the step of steps 5..7 at which handleStartAR returns early (0: none)
FailedAtSteps5to7(registered, cameraOK, markerSet) ==
  IF ~registered THEN 5
  ELSE IF ~cameraOK THEN 6
  ELSE IF ~markerSet THEN 7
  ELSE 0

\* handleStartAR, steps 2..7 aborted: setStartAR(false), stop the tracks
\* of videoRef.current.srcObject and clear it, return
AbortWithCleanup(v) ==
  /\ startAR' = SetState(startAR, FALSE)
  /\ live' = live \ {v.srcObject}
  /\ video' = NoVideo
  /\ pc' = "idle"

\* startVideo returned true with the video element in state v: steps 2, 3, 4
\* and registerMarker up to its await of addImageTargets
ContinueAfterVideo(v, rendererOK, controllerOK) ==
  LET failedAt == FailedAtSteps2to4(rendererOK, VideoReady(v), controllerOK)
      ok(i)    == CASE i = 2 -> rendererOK
                    [] i = 4 -> VideoReady(v) /\ controllerOK
                    [] OTHER -> TRUE
      last     == IF failedAt = 0 THEN 5 ELSE failedAt
  IN
  /\ attempts' = Append(attempts, "ok")
  /\ svResult' = "true"
  /\ stepsStarted' = StepsUpTo(last)
  /\ stepsOK' = SelectSeq(StepsUpTo(IF failedAt = 0 THEN 4 ELSE last), ok)
  /\ rendererRef' = IF last >= 3 THEN Ref("renderer") ELSE rendererRef
  /\ markerRef' = IF last >= 3 THEN Ref(NewMarker) ELSE markerRef
  /\ controllerRef' = IF last >= 5 THEN Ref(NewController) ELSE controllerRef
  /\ IF failedAt = 0
       THEN /\ video' = v
            /\ pc' = "reg"
            /\ lastFailure' = NoFailure
            /\ UNCHANGED << startAR, live >>
       ELSE /\ AbortWithCleanup(v)
            /\ lastFailure' =
                 CASE failedAt = 2        -> StartCanvasCatch
                   [] ~VideoReady(v)      -> InitControllerNotReady
                   [] OTHER               -> InitControllerCatch
  /\ UNCHANGED << constraints, gumCalls, sceneRef, cameraRef >>

\* video.play() settles (first attempt)
StartVideoPlay1(played, rendererOK, controllerOK) ==
  /\ frameCalls' = <<>>
  /\ pc = "sv_play1"
  /\ IF played
       THEN ContinueAfterVideo([video EXCEPT !.playing = TRUE],
                               rendererOK, controllerOK)
       ELSE /\ FirstCatch("playRejected")
            /\ UNCHANGED << video, live, refVars, stepVars >>
  /\ UNCHANGED << appVars, mounted, camVars, arReady, starts, loopVars,
                  logVars, poseVars >>

\* video.play() settles (retry)
StartVideoPlay2(played, rendererOK, controllerOK) ==
  /\ frameCalls' = <<>>
  /\ pc = "sv_play2"
  /\ IF played
       THEN ContinueAfterVideo([video EXCEPT !.playing = TRUE],
                               rendererOK, controllerOK)
       ELSE /\ RetryCatch("playRejected")
            /\ UNCHANGED << video, live, refVars, stepVars >>
  /\ UNCHANGED << appVars, mounted, camVars, arReady, starts, loopVars,
                  logVars, poseVars >>

\* setupMarker(dimensions), called through marker.setupMarker
SetupMarker(m) ==
  IF m = NULL THEN m ELSE Ref([Deref(m) EXCEPT !.postMatrix = Identity])

\* arController.addImageTargets settles ("ok", "invalid" data, "reject"):
\* the rest of registerMarker, then steps 6 and 7 and setARReady(true)
RegisterSettles(outcome, cameraOK) ==
  LET registered == outcome = "ok"
      failedAt == FailedAtSteps5to7(registered, cameraOK, markerRef # NULL)
      ok(i)    == CASE i = 5 -> registered
                    [] i = 6 -> cameraOK
                    [] i = 7 -> markerRef # NULL
                    [] OTHER -> TRUE
      last     == IF failedAt = 0 THEN 7 ELSE failedAt
  IN
  /\ pc = "reg"
  /\ frameCalls' = <<>>
  /\ stepsStarted' = StepsUpTo(last)
  /\ stepsOK' = SelectSeq(StepsUpTo(last), ok)
  /\ markerRef' = IF registered THEN SetupMarker(markerRef) ELSE markerRef
  /\ cameraRef' = IF last >= 6 /\ cameraOK THEN Ref("camera") ELSE cameraRef
  /\ sceneRef' = IF last = 7 /\ markerRef # NULL THEN Ref("scene") ELSE sceneRef
  /\ IF failedAt = 0
       THEN /\ arReady' = SetState(arReady, TRUE)
            /\ pc' = "idle"
            /\ lastFailure' = NoFailure
            /\ UNCHANGED << startAR, video, live >>
       ELSE /\ AbortWithCleanup(video)
            /\ lastFailure' =
                 CASE outcome = "reject"  -> RegisterMarkerCatch
                   [] outcome = "invalid" -> RegisterMarkerInvalid
                   [] failedAt = 6        -> SetupCameraCatch
                   [] OTHER               -> ComposeSceneNoMarker
            /\ UNCHANGED arReady
  /\ UNCHANGED << appVars, mounted, camVars, starts, svVars, rendererRef,
                  controllerRef, loopVars, logVars, poseVars >>

\* ------------------------------------------- MindAR: animation loop effect
\* !video.paused && !video.ended && readyState >= HAVE_CURRENT_DATA
VideoPlayable(v) == v.srcObject # 0 /\ v.meta /\ v.playing

ComponentsReady ==
  /\ rendererRef # NULL /\ cameraRef # NULL /\ sceneRef # NULL
  /\ controllerRef # NULL
  /\ VideoPlayable(video)

CancelFrameLeavesPending(frames, ref) == frames

\* window.cancelAnimationFrame(animationFrameRef.current)
CancelFrame(frames, ref) == frames \ {ref}

FrameCallsRequestFirst(outcome) ==
  CASE outcome = "processThrows" -> << "requestAnimationFrame", "processVideo" >>
    [] outcome = "renderThrows"  -> << "requestAnimationFrame", "processVideo",
                                       "render" >>
    [] OTHER                     -> << "requestAnimationFrame", "processVideo",
                                       "render" >>

\* the calls one run of animateScene makes, by what throws
FrameCalls(outcome) ==
  CASE outcome = "processThrows" -> << "processVideo" >>
    [] outcome = "renderThrows"  -> << "processVideo", "render" >>
    [] OTHER                     -> << "processVideo", "render",
                                       "requestAnimationFrame" >>

AnimateSceneCatchNoAlert == Failure("animateScene", "renderLoop", TRUE, FALSE)

\* catch block of animateScene: addLog, console.error, alert
AnimateSceneCatch == Failure("animateScene", "renderLoop", TRUE, TRUE)

ARReadyKeptAfterLoopError == arReady

\* catch block of animateScene: setARReady(false)
ARReadyAfterLoopError == SetState(arReady, FALSE)

\* useEffect(..., [arReady]): React runs the previous cleanup, then the
\* effect body with the committed arReady
AnimationEffect ==
  /\ frameCalls' = <<>>
  /\ mounted = "yes"
  /\ arReady # effARReady
  /\ effARReady' = arReady
  /\ LET \* cleanup returned by the previous run
         looping1 == IF effCleanup
                       THEN [isLooping EXCEPT ![loopEpoch] = FALSE]
                       ELSE isLooping
         frames1  == IF effCleanup
                       THEN CancelFrame(pendingFrames, animationFrameRef)
                       ELSE pendingFrames
         ref1     == IF effCleanup THEN 0 ELSE animationFrameRef
     IN
     IF ~arReady
       THEN /\ pendingFrames' = CancelFrame(frames1, ref1)
            /\ animationFrameRef' = 0
            /\ isLooping' = looping1
            /\ effCleanup' = FALSE
            /\ UNCHANGED << loopEpoch, arReady >>
       ELSE IF ~ComponentsReady
         THEN /\ arReady' = FALSE
              /\ pendingFrames' = frames1
              /\ animationFrameRef' = ref1
              /\ isLooping' = looping1
              /\ effCleanup' = FALSE
              /\ UNCHANGED loopEpoch
         ELSE /\ loopEpoch' = loopEpoch + 1
              /\ isLooping' = [looping1 EXCEPT ![loopEpoch + 1] = TRUE]
              /\ pendingFrames' = frames1 \cup {loopEpoch + 1}
              /\ animationFrameRef' = loopEpoch + 1
              /\ effCleanup' = TRUE
              /\ UNCHANGED arReady
  /\ lastFailure' = NoFailure
  /\ UNCHANGED << appVars, mounted, camVars, startAR, pc, starts, svVars,
                  video, live, refVars, stepVars, logVars,
                  poseVars >>

\* the display fires the frame callback requested by loop instance e
AnimateScene(e, outcome) ==
  /\ e \in pendingFrames
  /\ IF ~isLooping[e]
       THEN /\ pendingFrames' = pendingFrames \ {e}
            /\ animationFrameRef' = 0
            /\ frameCalls' = <<>>
            /\ lastFailure' = NoFailure
            /\ UNCHANGED << isLooping, arReady, startAR >>
       ELSE /\ frameCalls' = FrameCalls(outcome)
            /\ IF "requestAnimationFrame" \in
                    {FrameCalls(outcome)[i] : i \in 1..Len(FrameCalls(outcome))}
                 THEN /\ pendingFrames' = pendingFrames
                      /\ animationFrameRef' = e
                      /\ lastFailure' = NoFailure
                      /\ UNCHANGED << isLooping, arReady, startAR >>
                 ELSE /\ pendingFrames' = pendingFrames \ {e}
                      /\ isLooping' = [isLooping EXCEPT ![e] = FALSE]
                      /\ animationFrameRef' = 0
                      /\ arReady' = ARReadyAfterLoopError
                      /\ startAR' = SetState(startAR, FALSE)
                      /\ lastFailure' = AnimateSceneCatch
  /\ UNCHANGED << appVars, mounted, camVars, pc, starts, svVars, video, live,
                  refVars, effARReady, effCleanup, loopEpoch, stepVars,
                  logVars, poseVars >>

\* the browser pauses or ends the playing video (device lost, tab hidden)
VideoInterrupted ==
  /\ frameCalls' = <<>>
  /\ video.playing
  /\ video' = [video EXCEPT !.playing = FALSE]
  /\ lastFailure' = NoFailure
  /\ UNCHANGED << appVars, mounted, camVars, startAR, arReady, pc, starts,
                  svVars, live, refVars, loopVars, stepVars, logVars,
                  poseVars >>

\* ------------------------------------------------------- MindAR: unmount
\* React unmounts MindAR: the cleanup of the animation effect, then the
\* cleanup of the unmount effect
Unmount ==
  /\ frameCalls' = <<>>
  /\ mounted = "yes"
  /\ mounted' = "gone"
  /\ isLooping' = IF effCleanup
                    THEN [isLooping EXCEPT ![loopEpoch] = FALSE]
                    ELSE isLooping
  /\ pendingFrames' = CancelFrame(pendingFrames, animationFrameRef)
  /\ animationFrameRef' = 0
  /\ effCleanup' = FALSE
  /\ live' = live \ {video.srcObject}
  /\ video' = NoVideo
  /\ rendererRef' = NULL /\ sceneRef' = NULL /\ cameraRef' = NULL
  /\ markerRef' = NULL /\ controllerRef' = NULL
  /\ lastFailure' = NoFailure
  /\ UNCHANGED << appVars, camVars, startAR, arReady, pc, starts, svVars,
                  effARReady, loopEpoch, stepVars, logVars,
                  poseVars >>

\* --------------------------------------------------------------- addLog
LogMessages == { "message" }

\* `${timestamp}: ${message}`; the timestamp is taken to tell calls apart
LogEntry(time, message) == [time |-> time, message |-> message]

AddLogBufferUncapped(prev, entry) == << entry >> \o prev

\* [entry, ...prev].slice(0, 100)
AddLogBuffer(prev, entry) ==
  SubSeq(<< entry >> \o prev, 1, Min(Len(prev) + 1, LogCap))

\* addLog(message)
AddLog(message) ==
  /\ added < MaxAdds
  /\ added' = added + 1
  /\ logs' = AddLogBuffer(logs, LogEntry(added + 1, message))
  /\ UNCHANGED << appVars, mindVars, obsVars, poseVars >>

\* ------------------------------------------- marker and tracking callbacks
\* worldMatrix.fromArray(worldMatrixUpdate): the 16 numbers, column-major
FromArray(array) == [i \in 1..16 |-> array[i]]

TargetMatchesAny(marker, targetIndex) == TRUE

\* onUpdate: markerRef.current.targetIndex === targetIndex
TargetMatches(marker, targetIndex) == marker.targetIndex = targetIndex

\* updateWorldMatrix(worldMatrixUpdate) on the marker structure m
UpdateWorldMatrix(m, worldMatrixUpdate) ==
  LET matrixFound == worldMatrixUpdate # NULL IN
  [m EXCEPT !.anchor =
     [visible |-> matrixFound,
      matrix  |-> IF matrixFound
                    THEN Multiply(FromArray(worldMatrixUpdate), m.postMatrix)
                    ELSE m.anchor.matrix]]

\* the controller's onUpdate(data) callback, on the value of markerRef
OnUpdateMarker(ref, data) ==
  IF data.type = "updateMatrix" /\ ref # NULL
    THEN IF TargetMatches(Deref(ref), data.targetIndex)
           THEN Ref(UpdateWorldMatrix(Deref(ref), data.worldMatrix))
           ELSE ref
    ELSE ref

VisibilityLogOnEveryUpdate(m, worldMatrixUpdate) ==
  << IF worldMatrixUpdate # NULL THEN "Marker Target Found"
                                 ELSE "Marker Target Lost" >>

\* updateWorldMatrix: if (anchor.visible !== matrixFound) addLog(Found / Lost)
VisibilityLog(m, worldMatrixUpdate) ==
  LET matrixFound == worldMatrixUpdate # NULL IN
  IF m.anchor.visible # matrixFound
    THEN << IF matrixFound THEN "Marker Target Found"
                           ELSE "Marker Target Lost" >>
    ELSE << >>

\* onUpdate passes data.worldMatrix to updateWorldMatrix, which goes on
\* past its check of markerRef.current
Delivered(ref, data) ==
  /\ data.type = "updateMatrix" /\ ref # NULL
  /\ TargetMatches(Deref(ref), data.targetIndex)

\* the entries one onUpdate(data) call makes addLog write
OnUpdateLog(ref, data) ==
  IF Delivered(ref, data)
    THEN VisibilityLog(Deref(ref), data.worldMatrix)
    ELSE << >>

\* events the tracking library delivers to onUpdate
UpdateEvents ==
  [type : {"updateMatrix", "processDone"}, targetIndex : {0, 1},
   worldMatrix : WorldMatrices \cup {NULL}]

poseUnchanged ==
  UNCHANGED << appVars, mounted, camVars, startAR, arReady, pc, starts, svVars,
               video, live, rendererRef, sceneRef, cameraRef, controllerRef,
               loopVars, stepVars, obsVars, logVars >>

\* handleStartAR step 3: initMarker()
InitMarker ==
  /\ markerRef' = Ref(NewMarker)
  /\ lastEvent' = NoEvent
  /\ lastUpdate' = "none"
  /\ markerLog' = <<>>
  /\ UNCHANGED events
  /\ poseUnchanged

\* registerMarker: marker.setupMarker(dimensions)
RegisterSetupMarker ==
  /\ markerRef # NULL
  /\ markerRef' = SetupMarker(markerRef)
  /\ lastEvent' = NoEvent
  /\ UNCHANGED << events, lastUpdate, markerLog >>
  /\ poseUnchanged

\* the tracking library calls onUpdate(data)
OnUpdate(data) ==
  /\ events < MaxEvents
  /\ events' = events + 1
  /\ lastEvent' = data
  /\ markerRef' = OnUpdateMarker(markerRef, data)
  /\ markerLog' = markerLog \o OnUpdateLog(markerRef, data)
  /\ lastUpdate' = IF Delivered(markerRef, data)
                     THEN (IF data.worldMatrix # NULL THEN "matrix" ELSE "null")
                     ELSE lastUpdate
  /\ poseUnchanged

\* unmount cleanup: markerRef.current = null
ClearMarker ==
  /\ markerRef # NULL
  /\ markerRef' = NULL
  /\ lastEvent' = NoEvent
  /\ UNCHANGED << events, lastUpdate, markerLog >>
  /\ poseUnchanged

\* ------------------------------------------------------- specifications
AppNext ==
  \/ AppMountEffects
  \/ \E ok \in BOOLEAN : LiffInitSettles(ok)
  \/ \E outcome \in {"ok"} \cup GumErrors : PermissionSettles(outcome)
  \/ ClickStart

MindARNext(limit) ==
  \/ \E outcome \in {"ok"} \cup GumErrors : SetupCamerasGum(outcome)
  \/ \E resolved \in BOOLEAN, devices \in DeviceLists :
       SetupCamerasEnum(resolved, devices)
  \/ \E id \in {"cam-front", "cam-back"} : SelectCamera(id)
  \/ \E i \in 1..MaxRes : SelectResolution(i)
  \/ HandleStartAR(limit)
  \/ \E outcome \in {"ok"} \cup GumErrors : StartVideoGum1(outcome)
  \/ \E event \in {"loadedmetadata", "error"} : StartVideoMeta1(event)
  \/ \E played, rendererOK, controllerOK \in BOOLEAN :
       StartVideoPlay1(played, rendererOK, controllerOK)
  \/ \E outcome \in {"ok"} \cup GumErrors : StartVideoGum2(outcome)
  \/ \E event \in {"loadedmetadata", "error"} : StartVideoMeta2(event)
  \/ \E played, rendererOK, controllerOK \in BOOLEAN :
       StartVideoPlay2(played, rendererOK, controllerOK)
  \/ \E outcome \in {"ok", "invalid", "reject"}, cameraOK \in BOOLEAN :
       RegisterSettles(outcome, cameraOK)
  \/ AnimationEffect
  \/ \E e \in Epochs, outcome \in {"ok", "processThrows", "renderThrows"} :
       AnimateScene(e, outcome)
  \/ VideoInterrupted
  \/ Unmount

\* the MindAR component from its construction: App has committed, its Start
\* button was pressed and MindAR's mount effects have run
InitMindAR ==
  /\ liffId = "liff-id"
  /\ liffPc = "awaitInit" /\ liffInitialized = FALSE
  /\ liffInitCalls = << "liff-id" >> /\ liffCaught = "none"
  /\ cpPending = 2 /\ permissionGranted = FALSE /\ appStartAR = TRUE
  /\ mounted = "yes" /\ camPc = "awaitGUM" /\ camGranted = FALSE
  /\ cameras = <<>> /\ selectedCameraId = ""
  /\ selectedResolution = resolutionOptions[1]
  /\ startAR = FALSE /\ arReady = FALSE
  /\ pc = "idle" /\ constraints = NoConstraints /\ starts = 0
  /\ video = NoVideo /\ live = {}
  /\ rendererRef = NULL /\ sceneRef = NULL /\ cameraRef = NULL
  /\ markerRef = NULL /\ controllerRef = NULL
  /\ animationFrameRef = 0
  /\ effARReady = FALSE /\ effCleanup = FALSE /\ loopEpoch = 0
  /\ isLooping = [e \in Epochs |-> FALSE] /\ pendingFrames = {}
  /\ gumCalls = <<>> /\ attempts = <<>> /\ svResult = "none"
  /\ stepsStarted = <<>> /\ stepsOK = <<>> /\ lastFailure = NoFailure
  /\ frameCalls = <<>> /\ lastEvent = NoEvent /\ events = 0
  /\ lastUpdate = "none" /\ markerLog = <<>>
  /\ logs = <<>> /\ added = 0

Next == MindARNext(MaxStarts)

\* the MindAR component
Spec == InitMindAR /\ [][Next]_vars

\* App up to the configuration panel of MindAR: host SDK initialisation,
\* the permission gate, the mount of MindAR and its camera enumeration
NextApp ==
  \/ AppNext
  \/ \E outcome \in {"ok"} \cup GumErrors : SetupCamerasGum(outcome)
  \/ \E resolved \in BOOLEAN, devices \in DeviceLists :
       SetupCamerasEnum(resolved, devices)

SpecApp == Init /\ [][NextApp]_vars

\* the permission gate and MindAR together (liff.init left pending)
NextGate ==
  \/ AppMountEffects
  \/ \E outcome \in {"ok"} \cup GumErrors : PermissionSettles(outcome)
  \/ ClickStart
  \/ MindARNext(MaxAppStarts)

SpecGate == Init /\ [][NextGate]_vars

\* the log buffer under a run of addLog calls
NextLog == \E message \in LogMessages : AddLog(message)

SpecLog == InitMindAR /\ [][NextLog]_vars

\* the marker structure under the tracking library's callbacks
NextPose ==
  \/ InitMarker
  \/ RegisterSetupMarker
  \/ \E data \in UpdateEvents : OnUpdate(data)
  \/ ClearMarker

SpecPose == InitMindAR /\ [][NextPose]_vars

\* the steps by which an awaited call of the start sequence settles: the
\* promise of getUserMedia, the video element's event, the promise of
\* video.play() and that of addImageTargets
StartSettles ==
  \/ \E outcome \in {"ok"} \cup GumErrors : StartVideoGum1(outcome)
  \/ \E event \in {"loadedmetadata", "error"} : StartVideoMeta1(event)
  \/ \E played, rendererOK, controllerOK \in BOOLEAN :
       StartVideoPlay1(played, rendererOK, controllerOK)
  \/ \E outcome \in {"ok"} \cup GumErrors : StartVideoGum2(outcome)
  \/ \E event \in {"loadedmetadata", "error"} : StartVideoMeta2(event)
  \/ \E played, rendererOK, controllerOK \in BOOLEAN :
       StartVideoPlay2(played, rendererOK, controllerOK)
  \/ \E outcome \in {"ok", "invalid", "reject"}, cameraOK \in BOOLEAN :
       RegisterSettles(outcome, cameraOK)

\* the MindAR component when every awaited call eventually settles and the
\* video element eventually fires loadedmetadata or error
SpecFair == InitMindAR /\ [][Next]_vars /\ WF_vars(StartSettles)

FallbackOnlyOnConstraintFailure ==
  Len(attempts) >= 1 =>
    (Len(gumCalls) = 2 <=> attempts[1] = "OverconstrainedError")

\* ---- C2 (Spec), as amended.  The fallback attempt is made when, and only
\* when, the first attempt failed, for whatever reason, and the first request
\* named a specific resolution.
FallbackWhenSpecificResolutionFailed ==
  /\ Len(attempts) = 0 => Len(gumCalls) <= 1
  /\ Len(attempts) >= 1 =>
       (Len(gumCalls) = 2 <=>
          /\ attempts[1] # "ok"
          /\ gumCalls[1].width > 0 /\ gumCalls[1].height > 0)

FallbackAfterPermissionDenial ==
  /\ Len(gumCalls) = 2
  /\ Len(attempts) >= 1 /\ attempts[1] = "NotAllowedError"

\* ---- C3 (SpecGate), as claimed.  Every failure of the kinds permission
\* denial, unsatisfiable camera request, library initialisation failure and
\* render-loop exception produces a log entry and a blocking alert.
ListedFailureKinds ==
  {"NotAllowedError", "OverconstrainedError", "libraryInit", "renderLoop"}

NothingLiveAfterUnmount ==
  mounted = "gone" => pendingFrames = {} /\ live = {}

\* ---- C6 (Spec).  handleStartAR runs its seven steps in order, starts a
\* step only after every earlier step succeeded, and arReady is true only
\* after all seven succeeded.
StartStepsInOrder ==
  /\ Len(stepsStarted) <= 7
  /\ stepsStarted = StepsUpTo(Len(stepsStarted))
  /\ stepsOK = StepsUpTo(Len(stepsOK))
  /\ Len(stepsStarted) > 0 =>
       Len(stepsOK) \in {Len(stepsStarted) - 1, Len(stepsStarted)}
  /\ arReady => stepsOK = StepsUpTo(7)

AllStepsSucceeded == arReady /\ stepsOK = StepsUpTo(7) /\ pc = "idle"

\* ---- C7 (Spec), as claimed.  Each run of animateScene in an active loop
\* makes exactly one processVideo call followed by exactly one render call,
\* and requests the next frame only after both; maxTrack is 1.
FrameTracksThenRenders ==
  /\ frameCalls # <<>> =>
       /\ Len(frameCalls) >= 2
       /\ frameCalls[1] = "processVideo" /\ frameCalls[2] = "render"
       /\ \A i \in 3..Len(frameCalls) : frameCalls[i] = "requestAnimationFrame"
       /\ Len(frameCalls) <= 3
  /\ controllerRef # NULL => Deref(controllerRef).maxTrack = 1

\* ---- C7 (Spec), as amended.  Each run of animateScene in an active loop
\* makes exactly one processVideo call and, when that call did not throw,
\* exactly one render call after it; the next frame is requested only after
\* both returned, and is pending exactly then; maxTrack is 1.
FrameTracksThenRendersUnlessThrown ==
  /\ frameCalls # <<>> =>
       /\ frameCalls \in { << "processVideo" >>,
                           << "processVideo", "render" >>,
                           << "processVideo", "render", "requestAnimationFrame" >> }
       /\ Len(frameCalls) = 3 <=> lastFailure = NoFailure
       /\ Len(frameCalls) = 3 => animationFrameRef \in pendingFrames
       /\ Len(frameCalls) < 3 => animationFrameRef = 0 /\ pendingFrames = {}
  /\ controllerRef # NULL => Deref(controllerRef).maxTrack = 1

FrameCompleted ==
  frameCalls = << "processVideo", "render", "requestAnimationFrame" >>

\* ---- C8 (Spec).  The Start AR button is enabled exactly when a camera is
\* selected and startAR is false; a camera is selected only after permission
\* was granted and enumeration found a video input, so no start sequence is
\* launched before permission is granted.
StartOnlyAfterPermission ==
  /\ mounted = "yes" =>
       ((PanelShown /\ ~StartDisabled) <=> (selectedCameraId # "" /\ ~startAR))
  /\ selectedCameraId # "" =>
       /\ camGranted
       /\ \E i \in 1..Len(cameras) : cameras[i].deviceId = selectedCameraId
  /\ starts > 0 => camGranted /\ Len(cameras) >= 1

StartLaunched == starts > 0 /\ camGranted /\ pc = "sv_gum1"

\* ---- C9 (SpecPose).  An updateMatrix event for the marker's target index
\* with world matrix W makes the anchor visible with matrix W x postMatrix
\* (= W, postMatrix being the identity); an updateMatrix event for another
\* index, or an event of another type, leaves the marker structure as it is.
AnchorFollowsPose ==
  (/\ lastEvent.type = "updateMatrix"
   /\ markerRef # NULL
   /\ lastEvent.targetIndex = MarkerTargetIndex
   /\ lastEvent.worldMatrix # NULL) =>
     /\ Deref(markerRef).anchor.visible
     /\ Deref(markerRef).anchor.matrix =
          Multiply(lastEvent.worldMatrix, Deref(markerRef).postMatrix)
     /\ Deref(markerRef).anchor.matrix = lastEvent.worldMatrix

OtherEventsIgnored ==
  (/\ events' = events + 1
   /\ \/ lastEvent'.type # "updateMatrix"
      \/ lastEvent'.targetIndex # MarkerTargetIndex) => markerRef' = markerRef

AnchorDrivenByPose == []AnchorFollowsPose /\ [][OtherEventsIgnored]_vars

AnchorPlacedAtW2 ==
  /\ markerRef # NULL
  /\ lastEvent.type = "updateMatrix" /\ lastEvent.worldMatrix = W2
  /\ Deref(markerRef).anchor.visible
  /\ Deref(markerRef).anchor.matrix = W2

\* ---- C10 (SpecApp).  liff.init is called only with a non-empty identifier;
\* liffInitialized is true only after liff.init resolved and never returns to
\* false; with the identifier missing or init rejected the flag stays false
\* and the error is caught.
LiffInitGuarded ==
  /\ \A i \in 1..Len(liffInitCalls) : liffInitCalls[i] # "" /\ liffInitCalls[i] = liffId
  /\ liffId = "" => liffInitCalls = <<>> /\ ~liffInitialized
  /\ Len(liffInitCalls) <= 1
  /\ liffInitialized =>
       liffPc = "done" /\ Len(liffInitCalls) = 1 /\ liffCaught = "none"
  /\ (liffPc = "done" /\ ~liffInitialized) =>
       liffCaught = (IF liffId = "" THEN "missingId" ELSE "rejected")
  /\ liffPc # "done" => liffCaught = "none"

LiffStaysInitialized == liffInitialized => liffInitialized'

LiffInitOnlyWithId == []LiffInitGuarded /\ [][LiffStaysInitialized]_vars

LiffInitResolved == liffInitialized /\ liffInitCalls = << "liff-id" >>

\* ---- C11 (Spec).  Whenever handleStartAR has aborted, at any of its steps,
\* startAR and arReady are false, no stream acquired during the attempt is
\* live and nothing is attached to the video element.
StartAborted ==
  mounted = "yes" /\ starts > 0 /\ pc = "idle" /\ stepsOK # StepsUpTo(7)

AbortReleasesCamera ==
  StartAborted =>
    /\ ~startAR /\ ~arReady
    /\ live = {}
    /\ video.srcObject = 0

\* ---- C12 (Spec).  At every moment at most one camera stream acquired by
\* the component is live.
AtMostOneLiveStream == Cardinality(live) <= 1

\* ---- C13 (SpecFair).  Every start attempt of the mounted component
\* eventually ends with arReady true or with startAR false (the panel shown
\* again), unless the component is unmounted first.
StartAttemptTerminates ==
  (mounted = "yes" /\ pc # "idle") ~>
    \/ mounted = "gone"
    \/ pc = "idle" /\ (arReady \/ ~startAR)

\* ---- C14 (Spec).  Whenever AR is not running after a start attempt has
\* ended (it aborted, the animation loop threw, or the animation effect found
\* a missing component or a video that is not playable), startAR is false and
\* the configuration panel is shown.
PanelShownAfterFailure ==
  (mounted = "yes" /\ starts > 0 /\ pc = "idle" /\ ~arReady) =>
    ~startAR /\ PanelShown

\* ---- C15 (Spec).  arReady implies startAR in every state; no step sets
\* arReady to true with startAR false, and no step sets startAR to false
\* leaving arReady true.
ARReadyImpliesStartAR == arReady => startAR

ARReadySetOnlyWhileStarted ==
  /\ (~arReady /\ arReady') => (startAR /\ startAR')
  /\ (startAR /\ ~startAR') => ~arReady'

ARReadyOnlyWhileStartAR ==
  []ARReadyImpliesStartAR /\ [][ARReadySetOnlyWhileStarted]_vars

LoopErrorAfterReady ==
  /\ mounted = "yes" /\ lastFailure = AnimateSceneCatch
  /\ stepsOK = StepsUpTo(7)
  /\ ~startAR /\ ~arReady

\* ---- C16 (Spec).  At most one start sequence is in progress: while one is,
\* startAR is true and the Start AR button cannot be pressed; handleStartAR
\* is invoked only when no sequence is in progress and AR is not active, and
\* it sets startAR before its first await.
StartInProgressBlocksStart ==
  (mounted = "yes" /\ pc # "idle") => (startAR /\ ~StartPressable)

StartInvokedOnlyWhenIdle ==
  starts' # starts =>
    /\ pc = "idle" /\ ~startAR /\ ~arReady
    /\ pc' # "idle" => startAR'

OneStartAtATime ==
  []StartInProgressBlocksStart /\ [][StartInvokedOnlyWhenIdle]_vars

SecondStartAfterAbort == starts = 2 /\ pc = "sv_gum1" /\ startAR

\* ---- C17 (Spec).  Exactly one of the three status surfaces is shown: the
\* configuration panel exactly when startAR is false, the "Initializing AR"
\* indicator exactly when startAR is true and arReady false, the "AR Ready"
\* indicator exactly when arReady is true.
ExactlyOneStatusSurface ==
  mounted = "yes" =>
    /\ PanelShown <=> ~startAR
    /\ InitializingShown <=> (startAR /\ ~arReady)
    /\ ReadyShown <=> arReady
    /\ Cardinality({i \in 1..3 :
                      <<PanelShown, InitializingShown, ReadyShown>>[i]}) = 1

EverySurfaceShownInTurn ==
  /\ PanelShown /\ ~InitializingShown /\ ~ReadyShown
  /\ starts = 2 /\ lastFailure = AnimateSceneCatch

\* ---- C18 (Spec), as claimed.  When processVideo or render throws in the
\* animation loop, the loop stops (no frame pending, animationFrameRef null,
\* the loop's flag off), arReady and startAR are false, one alert is raised,
\* and the camera stream that was playing is released.
LoopErrorStopsLoopAndCamera ==
  (mounted = "yes" /\ lastFailure = AnimateSceneCatch) =>
    /\ pendingFrames = {} /\ animationFrameRef = 0
    /\ \A e \in Epochs : ~isLooping[e]
    /\ ~arReady /\ ~startAR
    /\ lastFailure.alert
    /\ live = {} /\ video.srcObject = 0

\* ---- C18 (Spec), as amended.  When processVideo or render throws in the
\* animation loop, the loop stops (no frame pending, animationFrameRef null,
\* the loop's flag off and never on again, so that it makes no further
\* processVideo or render call), arReady and startAR are false and one alert
\* is raised; the camera stream stays live and attached to the video element.
LoopErrorStopsLoop ==
  (mounted = "yes" /\ lastFailure = AnimateSceneCatch) =>
    /\ frameCalls \in { << "processVideo" >>, << "processVideo", "render" >> }
    /\ pendingFrames = {} /\ animationFrameRef = 0
    /\ \A e \in Epochs : ~isLooping[e]
    /\ ~arReady /\ ~startAR
    /\ lastFailure.alert
    /\ video.srcObject # 0 /\ video.srcObject \in live

StoppedLoopStaysStopped ==
  /\ \A e \in Epochs : (e <= loopEpoch /\ ~isLooping[e]) => ~isLooping'[e]
  /\ frameCalls' # <<>> =>
       /\ loopEpoch \in pendingFrames /\ isLooping[loopEpoch]
       /\ pendingFrames = {loopEpoch}

LoopErrorStopsLoopKeepsCamera ==
  []LoopErrorStopsLoop /\ [][StoppedLoopStaysStopped]_vars

RenderThrewInLoop ==
  /\ mounted = "yes" /\ lastFailure = AnimateSceneCatch
  /\ frameCalls = << "processVideo", "render" >>
  /\ video.srcObject \in live

\* ---- C19 (Spec).  The loop makes processVideo and render calls only while
\* arReady is true and its effect's cleanup has not run; a frame callback is
\* pending only for the loop of the current effect while that loop is on, so
\* at most one is pending, across a stop followed by a restart too.
FramesOnlyOfRunningLoop ==
  /\ Cardinality(pendingFrames) <= 1
  /\ \A e \in pendingFrames :
       /\ e = loopEpoch /\ e = animationFrameRef
       /\ isLooping[e] /\ effCleanup /\ effARReady
       /\ mounted = "yes" /\ arReady
  /\ \A e \in Epochs : isLooping[e] => e = loopEpoch /\ effCleanup

CallsOnlyWhileARReady ==
  frameCalls' # <<>> =>
    /\ arReady /\ mounted = "yes" /\ effCleanup
    /\ isLooping[loopEpoch] /\ loopEpoch' = loopEpoch

LoopRunsOnlyWhileARReady ==
  []FramesOnlyOfRunningLoop /\ [][CallsOnlyWhileARReady]_vars

SecondLoopRunning ==
  /\ loopEpoch = 2 /\ pendingFrames = {2} /\ ~isLooping[1]
  /\ frameCalls = << "processVideo", "render", "requestAnimationFrame" >>

\* ---- C20 (Spec).  After the unmount cleanup has run, the renderer, scene,
\* camera, marker and controller refs are null and stay null, and nothing is
\* attached to the video element again.
RefsStayNullAfterUnmount ==
  mounted = "gone" =>
    /\ rendererRef = NULL /\ sceneRef = NULL /\ cameraRef = NULL
    /\ markerRef = NULL /\ controllerRef = NULL
    /\ video.srcObject = 0

\* ---- C21 (SpecPose).  For the updates delivered to updateWorldMatrix after
\* initMarker: the anchor is visible exactly when the last one was non-null
\* (invisible before the first); a Found / Lost entry is written only when
\* the visibility changes, so the entries alternate, starting with Found;
\* a null update leaves anchor.matrix as it was.
VisibleIffLastUpdateFound ==
  markerRef # NULL =>
    /\ Deref(markerRef).anchor.visible <=> lastUpdate = "matrix"
    /\ \A i \in 1..Len(markerLog) :
         markerLog[i] = IF i % 2 = 1 THEN "Marker Target Found"
                                     ELSE "Marker Target Lost"
    /\ Deref(markerRef).anchor.visible <=> Len(markerLog) % 2 = 1

LoggedOnlyOnVisibilityChange ==
  (events' = events + 1 /\ markerRef # NULL) =>
    /\ markerRef' # NULL
    /\ IF Deref(markerRef').anchor.visible # Deref(markerRef).anchor.visible
         THEN markerLog' = Append(markerLog,
                IF Deref(markerRef').anchor.visible
                  THEN "Marker Target Found" ELSE "Marker Target Lost")
         ELSE markerLog' = markerLog
    /\ lastEvent'.worldMatrix = NULL =>
         Deref(markerRef').anchor.matrix = Deref(markerRef).anchor.matrix

FoundLostAlternate ==
  []VisibleIffLastUpdateFound /\ [][LoggedOnlyOnVisibilityChange]_vars

MarkerLostAfterFound ==
  /\ markerRef # NULL
  /\ markerLog = << "Marker Target Found", "Marker Target Lost" >>
  /\ lastUpdate = "null" /\ events = 3
  /\ ~Deref(markerRef).anchor.visible
  /\ Deref(markerRef).anchor.matrix = W1

====
